---- MODULE Spec2Model ----
(***************************************************************************)
(* Fixed-partition memory allocator of src/alloc.py: the engine (class    *)
(* Alloc), its blocks and jobs, the two placement policies, deallocation  *)
(* on expiry, the accumulated accounting counters and the statistics      *)
(* derived from them; and the interactive driver of src/main.py (class    *)
(* Anim), which feeds a queue of jobs to the engine frame by frame.       *)
(*                                                                         *)
(* freeList and busyList are Python sets of small integers.  firstFit,    *)
(* bestFit and deallocate iterate them, so their iteration order is part  *)
(* of the program's behaviour.  The sets are therefore modelled as the    *)
(* open-addressing hash tables the interpreter keeps for them: a table of *)
(* slots holding 0 (never used), Dummy (a removed key) or a key, iterated *)
(* in slot order.                                                          *)
(*                                                                         *)
(* Spec calls the engine's placement operations freely; StatsSpec and     *)
(* DerivationSpec add the statistics operations under the placement       *)
(* policy of a run; ScenarioSpec is the engine over two blocks of 30;     *)
(* AnimSpec is the interactive driver, AnimFairSpec the driver with its   *)
(* frames and ticks continuing, QueueSpec the driver over longer queues;  *)
(* BatchSpec is the batch loop of src/alloc.py, BatchFairSpec the loop    *)
(* running on.                                                             *)
(***************************************************************************)
EXTENDS Integers, Sequences, FiniteSets, TLC

\* ---------------------------------------------------------------- bounds
MaxBlocks == 3      \* block lists of length 0..MaxBlocks
MaxSize   == 2      \* block capacities 1..MaxSize, job sizes 1..MaxSize+1
MaxTime   == 1      \* job durations 0..MaxTime
MaxTick   == 1      \* the driver's tick runs 0..MaxTick
MaxJobs   == 2      \* job ids 1..MaxJobs
MaxAllocs == 3      \* successful placements per run
MaxStatsBlocks == 2 \* block lists of length 0..MaxStatsBlocks where statistics are called
MaxQueue  == 3      \* job lists of length 0..MaxQueue where the order of the queue is followed

\* ------------------------------------------------- interpreter constants
MinTableSize == 8       \* slots of a new set
LinearProbes == 9       \* consecutive slots tried before a jump
PerturbShift == 32      \* perturb >>= 5 is division by 32
Dummy        == -1      \* slot of a removed key
NoJob        == -1      \* Block.jid / Block.jobStart of a free block
NoTick       == -1      \* totalTicks before the first deallocate call

\* ------------------------------------------------------------ Python set
\* A set is [table, fill]: table[i+1] is slot i, fill counts the slots that
\* are not 0 (keys and dummies).
RECURSIVE EmptyTable(_)
EmptyTable(n) == IF n = 0 THEN << >> ELSE Append(EmptyTable(n - 1), 0)

EmptySet == [table |-> EmptyTable(MinTableSize), fill |-> 0]

SetIter(s) == SelectSeq(s.table, LAMBDA e : e > 0)

SetUsed(s) == Len(SetIter(s))

NumProbes(i, size) == IF i + LinearProbes <= size - 1 THEN LinearProbes ELSE 0

\* The probe sequence of a lookup or insertion of key in table t: from slot
\* i, NumProbes consecutive slots, then the jump i*5+1+perturb.  Returns the
\* slot where the walk stops (the key, or a never-used slot) and the last
\* dummy slot passed on the way (-1 when none).
RECURSIVE SetProbe(_, _, _, _, _, _)
SetProbe(t, key, i, perturb, j, free) ==
    LET size == Len(t)
        e    == t[i + j + 1]
    IN  IF e = 0 THEN [kind |-> "unused", pos |-> i + j, free |-> free]
        ELSE IF e = key THEN [kind |-> "active", pos |-> i + j, free |-> free]
        ELSE LET f == IF e = Dummy THEN i + j ELSE free
             IN  IF j < NumProbes(i, size)
                 THEN SetProbe(t, key, i, perturb, j + 1, f)
                 ELSE LET p == perturb \div PerturbShift
                      IN  SetProbe(t, key, (i * 5 + 1 + p) % size, p, 0, f)

SetLookup(s, key) == SetProbe(s.table, key, key % Len(s.table), key, 0, -1)

\* Insertion into a table without dummies (used when a table is rebuilt).
RECURSIVE SetInsertClean(_, _, _, _, _)
SetInsertClean(t, key, i, perturb, j) ==
    LET size == Len(t)
    IN  IF t[i + j + 1] = 0 THEN [t EXCEPT ![i + j + 1] = key]
        ELSE IF j < NumProbes(i, size)
             THEN SetInsertClean(t, key, i, perturb, j + 1)
             ELSE LET p == perturb \div PerturbShift
                  IN  SetInsertClean(t, key, (i * 5 + 1 + p) % size, p, 0)

RECURSIVE TableSize(_, _)
TableSize(n, minused) == IF n <= minused THEN TableSize(2 * n, minused) ELSE n

RECURSIVE InsertAll(_, _)
InsertAll(t, keys) ==
    IF keys = << >> THEN t
    ELSE InsertAll(SetInsertClean(t, Head(keys), Head(keys) % Len(t), Head(keys), 0),
                   Tail(keys))

\* The table is rebuilt with room for minused keys; dummies are dropped and
\* the keys are re-inserted in the old slot order.
SetResize(s, minused) ==
    LET n == TableSize(MinTableSize, minused)
    IN  [table |-> InsertAll(EmptyTable(n), SetIter(s)), fill |-> SetUsed(s)]

\* set.add(key): nothing if present; else the key goes to the last dummy
\* passed by the probe walk, or to the never-used slot that ended the walk,
\* and then the table is rebuilt when 3/5 of it is filled.
SetAdd(s, key) ==
    LET r == SetLookup(s, key)
    IN  IF r.kind = "active" THEN s
        ELSE IF r.free # -1 THEN [s EXCEPT !.table[r.free + 1] = key]
        ELSE LET s1 == [table |-> [s.table EXCEPT ![r.pos + 1] = key],
                        fill |-> s.fill + 1]
             IN  IF s1.fill * 5 < (Len(s1.table) - 1) * 3 THEN s1
                 ELSE SetResize(s1, SetUsed(s1) * 4)

\* set.remove(key) of a present key: its slot becomes a dummy.
SetRemove(s, key) ==
    LET r == SetLookup(s, key)
    IN  IF r.kind = "active" THEN [s EXCEPT !.table[r.pos + 1] = Dummy] ELSE s

SetElems(s) == { s.table[i] : i \in { k \in 1..Len(s.table) : s.table[k] > 0 } }


\* ------------------------------------------------------------ list helpers
RECURSIVE SeqSum(_)
SeqSum(q) == IF q = << >> THEN 0 ELSE Head(q) + SeqSum(Tail(q))

RECURSIVE SeqsUpTo(_, _)
SeqsUpTo(S, n) ==
    IF n = 0 THEN { << >> }
    ELSE LET shorter == SeqsUpTo(S, n - 1)
         IN  shorter \cup { Append(q, x) : q \in { r \in shorter : Len(r) = n - 1 }, x \in S }

\* ------------------------------------------------------------- state
VARIABLES
    ram,                \* Alloc.ram: block id -> Block, ids 1..N in input order
    freeList,           \* Alloc.freeList (Python set)
    busyList,           \* Alloc.busyList (Python set)
    jobMap,             \* Alloc.jobMap: job id -> Job
    blockUsage,         \* Alloc.blockUsage: defaultdict(int), as its items in insertion order
    usedBlocks,         \* Alloc.usedBlocks
    totalMemoryUsed,    \* Alloc.totalMemoryUsed
    totalFragmentation, \* Alloc.totalFragmentation
    totalJobMemory,     \* Alloc.totalJobMemory
    totalMemory,        \* Alloc.totalMemory
    totalTicks,         \* Alloc.totalTicks (NoTick until deallocate sets it)
    usageStats,         \* Alloc.usageStats: the dict calcStats fills and returns
    last,               \* history: the last call: its name, the job size passed, its result, the block chosen
    held,               \* history: block id -> placements into it since it was last freed
    tick,               \* the driver's tick counter, passed to every call
    placedCapacity,     \* history: sum of the chosen block's capacity over all placements
    placed,             \* history: job id -> number of successful placements of that id
    scheme,             \* Anim.scheme: 0 First Fit, 1 Best Fit
    jobs,               \* the driver's queue of jobs (a deque, leftmost first)
    rejectedList,       \* Anim.rejectedList
    jobTimes,           \* the (time, size) pairs the driver builds its queue from
    pc                  \* the driver's position in its loop body

engine == << ram, freeList, busyList, jobMap, blockUsage, usedBlocks,
             totalMemoryUsed, totalFragmentation, totalJobMemory,
             totalMemory, totalTicks, usageStats >>

vars == << ram, freeList, busyList, jobMap, blockUsage, usedBlocks,
           totalMemoryUsed, totalFragmentation, totalJobMemory,
           totalMemory, totalTicks, usageStats, last, held, placedCapacity, placed, tick,
           scheme, jobs, rejectedList, jobTimes, pc >>

driver == << scheme, jobs, rejectedList, jobTimes, pc >>

\* ------------------------------------------------------------- Job, Block
Job(id, time, size) == [id |-> id, time |-> time, size |-> size]

Block(id, size) == [id |-> id, size |-> size, jid |-> NoJob, busy |-> FALSE, jobStart |-> NoJob]

BlockAllocate(block, t, job) ==
    [block EXCEPT !.jid = job.id, !.busy = TRUE, !.jobStart = t]

\* (a release that leaves jobStart as it was)
BlockDeallocateKeepsStart(block) ==
    [block EXCEPT !.jid = NoJob, !.busy = FALSE]

BlockDeallocate(block) ==
    [block EXCEPT !.jid = NoJob, !.busy = FALSE, !.jobStart = NoJob]

\* ------------------------------------------------------------- inputs
BlockLists == SeqsUpTo(1..MaxSize, MaxBlocks)

\* Job ids are unique and a Job is immutable: an id the engine has already
\* recorded always comes with the time and size recorded for it.
JobInputs ==
    { j \in { Job(id, time, size) : id \in 1..MaxJobs, time \in 0..MaxTime, size \in 1..(MaxSize + 1) } :
        j.id \in DOMAIN jobMap => jobMap[j.id] = j }

BlockIds == 1..Len(ram)

\* ------------------------------------------------------------- __init__
RECURSIVE AddAll(_, _)
AddAll(s, keys) == IF keys = << >> THEN s ELSE AddAll(SetAdd(s, Head(keys)), Tail(keys))

RECURSIVE RemoveAll(_, _)
RemoveAll(s, keys) == IF keys = << >> THEN s ELSE RemoveAll(SetRemove(s, Head(keys)), Tail(keys))

NoCall == [op |-> "init", size |-> 0, res |-> FALSE, idx |-> 0]

InitFrom(sizes) ==
        /\ ram = [i \in 1..Len(sizes) |-> Block(i, sizes[i])]
        /\ freeList = AddAll(EmptySet, [i \in 1..Len(sizes) |-> i])
        /\ busyList = EmptySet
        /\ jobMap = << >>
        /\ blockUsage = << >>
        /\ usedBlocks = {}
        /\ totalMemoryUsed = 0
        /\ totalFragmentation = 0
        /\ totalJobMemory = 0
        /\ totalMemory = SeqSum(sizes)
        /\ totalTicks = NoTick
        /\ usageStats = << >>
        /\ last = NoCall
        /\ held = [i \in 1..Len(sizes) |-> {}]
        /\ placedCapacity = 0
        /\ placed = << >>
        /\ tick = 0

\* No driver: the engine is called directly.
NoDriver == scheme = 0 /\ jobs = << >> /\ rejectedList = {} /\ jobTimes = << >> /\ pc = "call"

Init == \E sizes \in BlockLists : InitFrom(sizes) /\ NoDriver

\* ------------------------------------------------------------- blockUsage
\* defaultdict(int): reading a missing key yields 0; "+= 1" on a missing key
\* appends the key, on a present key changes its value in place.
UsageIndex(usage, idx) ==
    LET hits == { i \in 1..Len(usage) : usage[i][1] = idx }
    IN  IF hits = {} THEN 0 ELSE CHOOSE i \in hits : TRUE

UsageOf(usage, idx) ==
    IF UsageIndex(usage, idx) = 0 THEN 0 ELSE usage[UsageIndex(usage, idx)][2]

UsageIncrement(usage, idx) ==
    IF UsageIndex(usage, idx) = 0 THEN Append(usage, << idx, 1 >>)
    ELSE [usage EXCEPT ![UsageIndex(usage, idx)] = << idx, @[2] + 1 >>]

RECURSIVE UsageTotal(_)
UsageTotal(usage) == IF usage = << >> THEN 0 ELSE Head(usage)[2] + UsageTotal(Tail(usage))

\* ------------------------------------------------------------- firstFit
\* The scan of "for idx in self.freeList": the first id, in the iteration
\* order given, whose block is large enough; 0 when the loop runs out.
\* (a scan that forgets the size test: the first id of the order)
FirstFittingAnyBlock(order, blocks, size) == IF order = << >> THEN 0 ELSE Head(order)

RECURSIVE FirstFitting(_, _, _)
FirstFitting(order, blocks, size) ==
    IF order = << >> THEN 0
    ELSE IF blocks[Head(order)].size >= size THEN Head(order)
    ELSE FirstFitting(Tail(order), blocks, size)

\* (the subtraction the wrong way round)
FragmentationReversed(block, job) == job.size - block.size

Fragmentation(block, job) == block.size - job.size

\* (the block's size added at every placement, not only at its first use)
MemoryUsedAfterEveryUse(idx) == totalMemoryUsed + ram[idx].size

\* totalMemoryUsed after a placement into block idx: the block's size is
\* added the first time the block is used.
MemoryUsedAfter(idx) ==
    IF idx \notin usedBlocks THEN totalMemoryUsed + ram[idx].size ELSE totalMemoryUsed

\* The body of firstFit, run on the iteration order of whatever self.freeList
\* is at the call.  freeAfter is self.freeList as the caller sees it after
\* the call when the placement succeeded.
FirstFitBody(op, order, freeAfter, t, job) ==
    LET idx == FirstFitting(order, ram, job.size)
    IN  IF idx = 0
        THEN /\ UNCHANGED << engine, held, placedCapacity, placed >>
             /\ last' = [op |-> op, size |-> job.size, res |-> FALSE, idx |-> 0]
        ELSE /\ UsageTotal(blockUsage) < MaxAllocs
             /\ jobMap' = [id \in DOMAIN jobMap \cup {job.id} |->
                              IF id = job.id THEN job ELSE jobMap[id]]
             /\ ram' = [ram EXCEPT ![idx] = BlockAllocate(@, t, job)]
             /\ freeList' = freeAfter
             /\ busyList' = SetAdd(busyList, idx)
             /\ blockUsage' = UsageIncrement(blockUsage, idx)
             /\ totalMemoryUsed' = MemoryUsedAfter(idx)
             /\ usedBlocks' = usedBlocks \cup {idx}
             /\ totalFragmentation' = totalFragmentation + Fragmentation(ram[idx], job)
             /\ totalJobMemory' = totalJobMemory + job.size
             /\ UNCHANGED << totalMemory, totalTicks, usageStats >>
             /\ last' = [op |-> op, size |-> job.size, res |-> TRUE, idx |-> idx]
             /\ held' = [held EXCEPT ![idx] = @ \cup {[jid |-> job.id, start |-> t, time |-> job.time]}]
             /\ placedCapacity' = placedCapacity + ram[idx].size
             /\ placed' = [id \in DOMAIN placed \cup {job.id} |->
                              IF id \in DOMAIN placed
                              THEN placed[id] + (IF id = job.id THEN 1 ELSE 0)
                              ELSE 1]

FreeAfterFirstFit(idx) == SetRemove(freeList, idx)

firstFit(t, job) ==
    FirstFitBody("firstFit", SetIter(freeList),
                 FreeAfterFirstFit(FirstFitting(SetIter(freeList), ram, job.size)),
                 t, job)

\* ------------------------------------------------------------- bestFit
\* sorted(iterable, key=size): a stable sort, equal sizes keep the order of
\* the iterable.
RECURSIVE InsertBySize(_, _, _)
InsertBySize(sorted, idx, blocks) ==
    IF sorted = << >> THEN << idx >>
    ELSE IF blocks[idx].size < blocks[Head(sorted)].size THEN << idx >> \o sorted
    ELSE << Head(sorted) >> \o InsertBySize(Tail(sorted), idx, blocks)

RECURSIVE SortedBySize(_, _)
SortedBySize(order, blocks) ==
    IF order = << >> THEN << >>
    ELSE InsertBySize(SortedBySize(SubSeq(order, 1, Len(order) - 1), blocks),
                      order[Len(order)], blocks)

\* self.freeList is the sorted list while firstFit runs, so firstFit removes
\* the chosen id from that list; then self.freeList is set back to the set
\* object it was before the call.
FreeAfterBestFit(idx) == freeList

bestFit(t, job) ==
    LET sortedBlocks == SortedBySize(SetIter(freeList), ram)
    IN  FirstFitBody("bestFit", sortedBlocks,
                     FreeAfterBestFit(FirstFitting(sortedBlocks, ram, job.size)),
                     t, job)

\* ------------------------------------------------------------- canAllocate
CanAllocateOver(order, blocks, size) == FirstFitting(order, blocks, size) # 0

\* (only the free blocks are looked at)
CanAllocateFreeOnly(job) == CanAllocateOver(SetIter(freeList), ram, job.size)

CanAllocate(job) == CanAllocateOver(SetIter(freeList) \o SetIter(busyList), ram, job.size)

canAllocate(job) ==
    /\ last' = [op |-> "canAllocate", size |-> job.size, res |-> CanAllocate(job), idx |-> 0]
    /\ UNCHANGED << engine, held, placedCapacity, placed >>

\* ------------------------------------------------------------- deallocate
Expired(block, t) == t - block.jobStart >= jobMap[block.jid].time

ToRemove(t) == SelectSeq(SetIter(busyList), LAMBDA idx : Expired(ram[idx], t))

deallocate(t) ==
    LET toRemove == ToRemove(t)
        freed    == { toRemove[i] : i \in 1..Len(toRemove) }
    IN  /\ totalTicks' = t
        /\ ram' = [idx \in BlockIds |-> IF idx \in freed THEN BlockDeallocate(ram[idx]) ELSE ram[idx]]
        /\ freeList' = AddAll(freeList, toRemove)
        /\ busyList' = RemoveAll(busyList, toRemove)
        /\ UNCHANGED << jobMap, blockUsage, usedBlocks, totalMemoryUsed,
                        totalFragmentation, totalJobMemory, totalMemory, usageStats >>
        /\ last' = [op |-> "deallocate", size |-> 0, res |-> FALSE, idx |-> 0]
        /\ held' = [idx \in BlockIds |-> IF idx \in freed THEN {} ELSE held[idx]]
        /\ UNCHANGED << placedCapacity, placed >>

\* ------------------------------------------------------------- statistics
\* memory_utilization_percentage of calcStorageUtilization, as the exact
\* fraction num/den.
MemoryUtilization ==
    IF totalMemory > 0 THEN [num |-> totalMemoryUsed * 100, den |-> totalMemory]
    ELSE [num |-> 0, den |-> 1]

\* Python's / on two ints, compared only for equality: the fraction in
\* lowest terms, << numerator, denominator >>.
RECURSIVE GCD(_, _)
GCD(a, b) == IF b = 0 THEN a ELSE GCD(b, a % b)

Ratio(n, d) == << n \div GCD(n, d), d \div GCD(n, d) >>

\* round-half-to-even of n/d (n >= 0, d > 0): what the format ":.1f" does
\* to the decimal digits it drops.
RoundHalfEven(n, d) ==
    LET q == n \div d
        r == n % d
    IN  IF 2 * r < d THEN q
        ELSE IF 2 * r > d THEN q + 1
        ELSE IF q % 2 = 0 THEN q ELSE q + 1

\* f"{(n / d) * 100:.1f}%" if d > 0, f"{0:.1f}%" otherwise: the number of
\* tenths of a percent printed.
PercentText(n, d) == IF d > 0 THEN << RoundHalfEven(1000 * n, d) >> ELSE << 0 >>

\* The keys of self.ram in iteration order: a dict filled with 1..N.
RECURSIVE RamKeys(_)
RamKeys(n) == IF n = 0 THEN << >> ELSE Append(RamKeys(n - 1), n)

\* self.blockUsage after "for blockId in self.ram.keys(): self.blockUsage[blockId]":
\* reading a missing key of the defaultdict inserts it with 0.
RECURSIVE UsageAfterRead(_, _)
UsageAfterRead(usage, keys) ==
    IF keys = << >> THEN usage
    ELSE UsageAfterRead(IF UsageIndex(usage, Head(keys)) = 0
                        THEN Append(usage, << Head(keys), 0 >>) ELSE usage,
                        Tail(keys))

NeverUsedBlocks == SelectSeq(RamKeys(Len(ram)), LAMBDA b : UsageOf(blockUsage, b) = 0)

RECURSIVE WithCounts(_)
WithCounts(keys) ==
    IF keys = << >> THEN << >>
    ELSE << << Head(keys), UsageOf(blockUsage, Head(keys)) >> >> \o WithCounts(Tail(keys))

\* usedBlocks of calcStorageUtilization: (blockId, usageCount) of the blocks
\* with a count other than 0, in ram order.
UsedWithCounts ==
    WithCounts(SelectSeq(RamKeys(Len(ram)), LAMBDA b : UsageOf(blockUsage, b) # 0))

RECURSIVE SumCounts(_)
SumCounts(pairs) == IF pairs = << >> THEN 0 ELSE Head(pairs)[2] + SumCounts(Tail(pairs))

\* max(1, int(meanUsage)), 1 when no block was used.
HeavilyUsedThreshold ==
    IF UsedWithCounts = << >> THEN 1
    ELSE LET m == SumCounts(UsedWithCounts) \div Len(UsedWithCounts)
         IN  IF m > 1 THEN m ELSE 1

HeavilyUsedBlocks == SelectSeq(UsedWithCounts, LAMBDA p : p[2] >= HeavilyUsedThreshold)

LightlyUsedBlocks == SelectSeq(UsedWithCounts, LAMBDA p : ~(p[2] >= HeavilyUsedThreshold))

\* f"{mean_usage:.1f}": tenths of the mean count, 0 when no block was used.
MeanUsageText ==
    IF UsedWithCounts = << >> THEN 0
    ELSE RoundHalfEven(10 * SumCounts(UsedWithCounts), Len(UsedWithCounts))

\* max(pairs, key=count) and min(pairs, key=count): the first pair, in the
\* order of the list, whose count is the largest / the smallest.
RECURSIVE FirstMax(_)
FirstMax(pairs) ==
    IF Len(pairs) = 1 THEN Head(pairs)
    ELSE LET rest == FirstMax(Tail(pairs))
         IN  IF rest[2] > Head(pairs)[2] THEN rest ELSE Head(pairs)

\* (the last of the pairs with the smallest count)
RECURSIVE LastMin(_)
LastMin(pairs) ==
    IF Len(pairs) = 1 THEN Head(pairs)
    ELSE LET rest == LastMin(Tail(pairs))
         IN  IF rest[2] <= Head(pairs)[2] THEN rest ELSE Head(pairs)

RECURSIVE FirstMin(_)
FirstMin(pairs) ==
    IF Len(pairs) = 1 THEN Head(pairs)
    ELSE LET rest == FirstMin(Tail(pairs))
         IN  IF rest[2] < Head(pairs)[2] THEN rest ELSE Head(pairs)

\* fragmentation_percentage of calcInternalFragmentation, as printed.
FragmentationText ==
    PercentText(totalFragmentation, totalJobMemory + totalFragmentation)

\* self.usageStats[key] = value
Put(stats, key, value) ==
    [k \in DOMAIN stats \cup {key} |-> IF k = key THEN value ELSE stats[k]]

PutIf(cond, stats, key, value) == IF cond THEN Put(stats, key, value) ELSE stats

\* Lines 231-233: sorted(self.blockUsage.items(), key=count)[0][0], the id
\* of the first item of the dict with the smallest count, stored as an int.
AfterLeastUsedById(stats) ==
    PutIf(blockUsage # << >>, stats, "Least Used Block", << FirstMin(blockUsage)[1] >>)

\* (every placement counted, not every job id)
ThroughputPerPlacement ==
    IF totalTicks > 0 THEN Ratio(UsageTotal(blockUsage), totalTicks) ELSE << 0, 1 >>

\* Lines 236-238.
Throughput ==
    IF totalTicks > 0 THEN Ratio(Cardinality(DOMAIN jobMap), totalTicks) ELSE << 0, 1 >>

\* Lines 241-298: the entries calcStats writes after the throughput.  A
\* formatted string is modelled by the numbers it prints: a percentage by
\* its tenths, "Block b (cx)" by << b, c >>, "uK/tK" by << u, t >>.
StatsMap(stats) ==
    LET total == Len(ram)
        never == NeverUsedBlocks
        used  == UsedWithCounts
        light == LightlyUsedBlocks
        heavy == HeavilyUsedBlocks
        s1  == Put(stats, "Throughput (jobs/tick)", Throughput)
        s2  == Put(s1, "% Never Used", PercentText(Len(never), total))
        s3  == Put(s2, "% Lightly Used", PercentText(Len(light), total))
        s4  == Put(s3, "% Heavily Used", PercentText(Len(heavy), total))
        s5  == Put(s4, "Memory Used", << totalMemoryUsed, totalMemory >>)
        s6  == Put(s5, "Memory Util %",
                   << RoundHalfEven(10 * MemoryUtilization.num, MemoryUtilization.den) >>)
        s7  == Put(s6, "Heavy Threshold", << HeavilyUsedThreshold, MeanUsageText >>)
        s8  == PutIf(never # << >>, s7, "Never Used Blocks", never)
        s9  == PutIf(light # << >>, s8, "Lightly Used Blocks", light)
        s10 == PutIf(heavy # << >>, s9, "Heavily Used Blocks", heavy)
        s11 == PutIf(used # << >>, s10, "Most Used Block",
                     IF used # << >> THEN FirstMax(used) ELSE << >>)
        s12 == PutIf(used # << >>, s11, "Least Used Block",
                     IF used # << >> THEN FirstMin(used) ELSE << >>)
        s13 == Put(s12, "Total Internal Fragmentation", << totalFragmentation >>)
        s14 == Put(s13, "Internal Fragmentation %", FragmentationText)
    IN  Put(s14, "Total Job Memory", << totalJobMemory >>)

\* calcStats.  self.totalTicks is read at line 237; on an engine on which
\* deallocate was never called the attribute does not exist and the call
\* raises AttributeError there, after lines 231-233 have run.  last.res tells
\* whether the call returned (TRUE) or raised (FALSE).
calcStats ==
    IF totalTicks = NoTick
    THEN /\ usageStats' = AfterLeastUsedById(usageStats)
         /\ UNCHANGED << ram, freeList, busyList, jobMap, blockUsage, usedBlocks,
                         totalMemoryUsed, totalFragmentation, totalJobMemory,
                         totalMemory, totalTicks, held, placedCapacity, placed >>
         /\ last' = [op |-> "calcStats", size |-> 0, res |-> FALSE, idx |-> 0]
    ELSE /\ usageStats' = StatsMap(AfterLeastUsedById(usageStats))
         /\ blockUsage' = UsageAfterRead(blockUsage, RamKeys(Len(ram)))
         /\ UNCHANGED << ram, freeList, busyList, jobMap, usedBlocks,
                         totalMemoryUsed, totalFragmentation, totalJobMemory,
                         totalMemory, totalTicks, held, placedCapacity, placed >>
         /\ last' = [op |-> "calcStats", size |-> 0, res |-> TRUE, idx |-> 0]

calcStorageUtilization ==
    /\ blockUsage' = UsageAfterRead(blockUsage, RamKeys(Len(ram)))
    /\ UNCHANGED << ram, freeList, busyList, jobMap, usedBlocks,
                    totalMemoryUsed, totalFragmentation, totalJobMemory,
                    totalMemory, totalTicks, usageStats, held, placedCapacity, placed >>
    /\ last' = [op |-> "calcStorageUtilization", size |-> 0, res |-> TRUE, idx |-> 0]

calcInternalFragmentation ==
    /\ UNCHANGED << engine, held, placedCapacity, placed >>
    /\ last' = [op |-> "calcInternalFragmentation", size |-> 0, res |-> TRUE, idx |-> 0]

outputState ==
    /\ UNCHANGED << engine, held, placedCapacity, placed >>
    /\ last' = [op |-> "outputState", size |-> 0, res |-> TRUE, idx |-> 0]

\* ------------------------------------------------------------- specification
DoFirstFit == \E job \in JobInputs : firstFit(tick, job) /\ UNCHANGED << tick, driver >>

DoBestFit == \E job \in JobInputs : bestFit(tick, job) /\ UNCHANGED << tick, driver >>

DoCanAllocate == \E job \in JobInputs : canAllocate(job) /\ UNCHANGED << tick, driver >>

DoDeallocate == deallocate(tick) /\ UNCHANGED << tick, driver >>

\* The driver moves on to the next tick (tick += 1 of the driver loops).
AdvanceTick ==
    /\ tick < MaxTick
    /\ tick' = tick + 1
    /\ last' = [op |-> "tick", size |-> 0, res |-> FALSE, idx |-> 0]
    /\ UNCHANGED << engine, held, placedCapacity, placed, driver >>

Next == DoFirstFit \/ DoBestFit \/ DoCanAllocate \/ DoDeallocate \/ AdvanceTick

Spec == Init /\ [][Next]_vars

\* The engine under placement, deallocation and statistics calls.
DoCalcStats == calcStats /\ UNCHANGED << tick, driver >>

DoCalcStorageUtilization == calcStorageUtilization /\ UNCHANGED << tick, driver >>

DoCalcInternalFragmentation == calcInternalFragmentation /\ UNCHANGED << tick, driver >>

DoOutputState == outputState /\ UNCHANGED << tick, driver >>

\* The placement call of the run's scheme (main.py 152-155).
DoPlace ==
    /\ \E job \in JobInputs :
          IF scheme = 1 THEN bestFit(tick, job) ELSE firstFit(tick, job)
    /\ UNCHANGED << tick, driver >>

StatsNext == DoPlace \/ DoDeallocate \/ AdvanceTick \/ DoCalcStats

StatsInit ==
    /\ \E sizes \in SeqsUpTo(1..MaxSize, MaxStatsBlocks) : InitFrom(sizes)
    /\ scheme \in {0, 1} /\ jobs = << >> /\ rejectedList = {} /\ jobTimes = << >> /\ pc = "call"

StatsSpec == StatsInit /\ [][StatsNext]_vars

\* The engine at one tick, under placement, deallocation and every operation
\* that derives statistics or a view from it.
DerivationNext ==
    \/ DoPlace \/ DoDeallocate
    \/ DoCalcStats \/ DoCalcStorageUtilization
    \/ DoCalcInternalFragmentation \/ DoOutputState

DerivationSpec == StatsInit /\ [][DerivationNext]_vars

\* The engine built from two blocks of 30 and given jobs of size 30, under
\* the placement policy of the run.
ScenarioBlocks == << 30, 30 >>

ScenarioJobInputs ==
    { j \in { Job(id, time, ScenarioBlocks[1]) : id \in 1..MaxJobs, time \in 0..MaxTime } :
        j.id \in DOMAIN jobMap => jobMap[j.id] = j }

DoScenarioPlace ==
    /\ \E job \in ScenarioJobInputs :
          IF scheme = 1 THEN bestFit(tick, job) ELSE firstFit(tick, job)
    /\ UNCHANGED << tick, driver >>

ScenarioInit ==
    /\ InitFrom(ScenarioBlocks)
    /\ scheme \in {0, 1} /\ jobs = << >> /\ rejectedList = {} /\ jobTimes = << >> /\ pc = "call"

ScenarioNext == DoScenarioPlace \/ DoDeallocate \/ AdvanceTick

ScenarioSpec == ScenarioInit /\ [][ScenarioNext]_vars


\* ------------------------------------------------------------- interactive driver
\* Anim of src/main.py: reset builds the queue and the engine, update is the
\* body of one frame.  A frame is taken in four steps, pc telling which is
\* next: "update" (the tick timer and the placement attempt), "deallocate",
\* "calcStats" and "end" (the end-of-run test).  The fields that only feed
\* the display (rectangles, texts, runs, schemeStats) are left out.

\* The longest run: every job waits for the one before it to leave its block.
MaxRunTick == MaxQueue * (MaxTime + 1)

RECURSIVE makeJobQueue(_)
makeJobQueue(times) ==
    IF times = << >> THEN << >>
    ELSE Append(makeJobQueue(SubSeq(times, 1, Len(times) - 1)),
                Job(Len(times), times[Len(times)][1], times[Len(times)][2]))

JobLists == SeqsUpTo({ << time, size >> : time \in 0..MaxTime, size \in 1..(MaxSize + 1) }, MaxJobs)

\* (a job that failed is rejected whether or not a block could hold it)
RejectedAfterAnyFailure(rejected, job, alloced, can) ==
    IF alloced THEN rejected ELSE rejected \cup {job}

\* self.rejectedList after the attempt on job (lines 158-162).
RejectedAfter(rejected, job, alloced, can) ==
    IF ~alloced /\ ~can THEN rejected \cup {job} ELSE rejected

\* (a job that failed is put back at the right end of the queue)
JobsAfterRequeuedLast(queue, alloced, can) ==
    IF ~alloced /\ can THEN Tail(queue) \o << Head(queue) >> ELSE Tail(queue)

\* self.jobs after the attempt on its leftmost job: popleft, and appendleft
\* when the placement failed and canAllocate is true (lines 153-160).
JobsAfter(queue, alloced, can) ==
    IF ~alloced /\ can THEN << Head(queue) >> \o Tail(queue) ELSE Tail(queue)

\* Lines 146-162.  elapsed: t0 - tickTimer >= TICK_UPDATE_INTERVAL_MS, so the
\* tick is incremented and tickTimer becomes t0; early: t0 - tickTimer < 50
\* afterwards, which is certain when the timer was just set to t0.
updateAttempt(elapsed, early) ==
    LET t == IF elapsed THEN tick + 1 ELSE tick
    IN  /\ pc = "update"
        /\ elapsed => (tick < MaxRunTick /\ early)
        /\ tick' = t
        /\ IF jobs # << >> /\ early
           THEN \E job \in { Head(jobs) } :
                    /\ IF scheme = 1 THEN bestFit(t, job) ELSE firstFit(t, job)
                    /\ jobs' = JobsAfter(jobs, last'.res, CanAllocate(job)')
                    /\ rejectedList' = RejectedAfter(rejectedList, job, last'.res, CanAllocate(job)')
           ELSE /\ UNCHANGED << engine, held, placedCapacity, placed, jobs, rejectedList >>
                /\ last' = [op |-> "update", size |-> 0, res |-> FALSE, idx |-> 0]
        /\ pc' = "deallocate"
        /\ UNCHANGED << scheme, jobTimes >>

\* A frame on which the tick timer has run out.
updateOnTick == updateAttempt(TRUE, TRUE)

\* A frame within the current tick, in or after its first 50 ms.
updateWithinTick == \E early \in BOOLEAN : updateAttempt(FALSE, early)

\* Line 164.
updateDeallocate ==
    /\ pc = "deallocate"
    /\ deallocate(tick)
    /\ pc' = "calcStats"
    /\ UNCHANGED << tick, scheme, jobs, rejectedList, jobTimes >>

\* Line 175.
updateCalcStats ==
    /\ pc = "calcStats"
    /\ calcStats
    /\ pc' = "end"
    /\ UNCHANGED << tick, scheme, jobs, rejectedList, jobTimes >>

\* The test of line 207.
RunOver == jobs = << >> /\ SetUsed(busyList) = 0 /\ tick > 0

\* Lines 207-224 when the run is not over or the scheme delay has not passed.
updateReturn ==
    /\ pc = "end"
    /\ pc' = "update"
    /\ last' = [op |-> "return", size |-> 0, res |-> FALSE, idx |-> 0]
    /\ UNCHANGED << engine, held, placedCapacity, placed, tick, scheme, jobs, rejectedList, jobTimes >>

\* The capacities the engine was built from, in block order.
RECURSIVE Capacities(_)
Capacities(n) == IF n = 0 THEN << >> ELSE Append(Capacities(n - 1), ram[n].size)

\* Lines 213-220: the run is over and CHANGE_SCHEME_DELAY_MS has passed since
\* the last reset; the scheme is switched and reset (lines 25-84) builds the
\* queue and a new engine from the same literals.
reset ==
    /\ pc = "end"
    /\ RunOver
    /\ scheme' = 1 - scheme
    /\ tick' = 0
    /\ jobs' = makeJobQueue(jobTimes)
    /\ rejectedList' = {}
    /\ ram' = [i \in BlockIds |-> Block(i, Capacities(Len(ram))[i])]
    /\ freeList' = AddAll(EmptySet, RamKeys(Len(ram)))
    /\ busyList' = EmptySet
    /\ jobMap' = << >>
    /\ blockUsage' = << >>
    /\ usedBlocks' = {}
    /\ totalMemoryUsed' = 0
    /\ totalFragmentation' = 0
    /\ totalJobMemory' = 0
    /\ totalMemory' = SeqSum(Capacities(Len(ram)))
    /\ totalTicks' = NoTick
    /\ usageStats' = << >>
    /\ last' = NoCall
    /\ held' = [i \in BlockIds |-> {}]
    /\ placedCapacity' = 0
    /\ placed' = << >>
    /\ pc' = "update"
    /\ UNCHANGED jobTimes

\* Anim.__init__ (scheme 0) followed by reset.  The block list is not empty:
\* drawInitialRAM divides by the number of blocks.
AnimInit ==
    /\ \E sizes \in BlockLists \ { << >> } : InitFrom(sizes)
    /\ jobTimes \in JobLists
    /\ jobs = makeJobQueue(jobTimes)
    /\ scheme = 0
    /\ rejectedList = {}
    /\ pc = "update"

AnimNext ==
    \/ updateOnTick \/ updateWithinTick
    \/ updateDeallocate \/ updateCalcStats
    \/ updateReturn \/ reset

AnimSpec == AnimInit /\ [][AnimNext]_vars

\* The main loop calls update on every frame and every frame runs to its end,
\* so the position in the frame keeps moving on; the clock update reads
\* keeps running, so again and again a frame finds the tick timer run out.
\* Fairness is stated on pc and tick, the part of the state these steps are
\* told by.
FrameMoves(from, to) == pc = from /\ pc' = to

TickElapses == pc = "update" /\ tick < MaxRunTick /\ tick' = tick + 1 /\ pc' = "deallocate"

AnimFairSpec ==
    /\ AnimSpec
    /\ WF_pc(FrameMoves("update", "deallocate"))
    /\ WF_pc(FrameMoves("deallocate", "calcStats"))
    /\ WF_pc(FrameMoves("calcStats", "end"))
    /\ WF_pc(FrameMoves("end", "update"))
    /\ SF_<< pc, tick >>(TickElapses)

\* The interactive driver over longer queues and the shorter block lists:
\* long enough for a job to wait while a later one would fit a free block.
QueueInit ==
    /\ \E sizes \in SeqsUpTo(1..MaxSize, MaxStatsBlocks) \ { << >> } : InitFrom(sizes)
    /\ jobTimes \in SeqsUpTo({ << time, size >> : time \in 0..MaxTime, size \in 1..(MaxSize + 1) }, MaxQueue)
    /\ jobs = makeJobQueue(jobTimes)
    /\ scheme = 0
    /\ rejectedList = {}
    /\ pc = "update"

QueueSpec == QueueInit /\ [][AnimNext]_vars

\* ------------------------------------------------------------- batch driver
\* The loop under __main__ of src/alloc.py (lines 351-373), one iteration in
\* steps told by pc: "attempt" (pop and firstFit), "release" (deallocate),
\* "print" (printState), "advance" (tick += 1 and the exit test), "final"
\* (calcStats after the loop's exit test held) and "done" (after break).

\* More ticks than a run takes whose jobs all fit some block: between two
\* placements, and after the last, at most MaxTime + 1 iterations pass.
MaxBatchTick == (MaxJobs + 1) * (MaxTime + 1)

\* (a job that failed is not put back)
JobsAfterPopDropped(queue, alloced) == SubSeq(queue, 1, Len(queue) - 1)

\* jobs after "job = jobs.pop()" and, when the placement failed,
\* "jobs.appendleft(job)" (lines 353-356).
JobsAfterPop(queue, alloced) ==
    IF alloced THEN SubSeq(queue, 1, Len(queue) - 1)
    ELSE << queue[Len(queue)] >> \o SubSeq(queue, 1, Len(queue) - 1)

\* Lines 352-356.
batchAttempt ==
    /\ pc = "attempt"
    /\ IF jobs # << >>
       THEN /\ firstFit(tick, jobs[Len(jobs)])
            /\ jobs' = JobsAfterPop(jobs, last'.res)
       ELSE /\ UNCHANGED << engine, held, placedCapacity, placed, jobs >>
            /\ last' = [op |-> "attempt", size |-> 0, res |-> FALSE, idx |-> 0]
    /\ pc' = "release"
    /\ UNCHANGED << tick, scheme, rejectedList, jobTimes >>

\* Line 357.
batchDeallocate ==
    /\ pc = "release"
    /\ deallocate(tick)
    /\ pc' = "print"
    /\ UNCHANGED << tick, scheme, jobs, rejectedList, jobTimes >>

\* Line 359.
batchPrintState ==
    /\ pc = "print"
    /\ outputState
    /\ pc' = "advance"
    /\ UNCHANGED << tick, scheme, jobs, rejectedList, jobTimes >>

\* Lines 362-363: tick += 1 and the test that ends the loop.
batchAdvance ==
    /\ pc = "advance"
    /\ tick < MaxBatchTick
    /\ tick' = tick + 1
    /\ pc' = IF SetUsed(busyList) = 0 /\ jobs = << >> THEN "final" ELSE "attempt"
    /\ last' = [op |-> "tick", size |-> 0, res |-> FALSE, idx |-> 0]
    /\ UNCHANGED << engine, held, placedCapacity, placed, scheme, jobs, rejectedList, jobTimes >>

\* Lines 364-372: the final statistics, then break.
batchFinal ==
    /\ pc = "final"
    /\ calcStats
    /\ pc' = "done"
    /\ UNCHANGED << tick, scheme, jobs, rejectedList, jobTimes >>

\* Lines 307-351: the queue, the engine and tick = 0.
BatchInit ==
    /\ \E sizes \in BlockLists : InitFrom(sizes)
    /\ jobTimes \in JobLists
    /\ jobs = makeJobQueue(jobTimes)
    /\ scheme = 0
    /\ rejectedList = {}
    /\ pc = "attempt"

BatchNext ==
    \/ batchAttempt \/ batchDeallocate \/ batchPrintState
    \/ batchAdvance \/ batchFinal

BatchSpec == BatchInit /\ [][BatchNext]_vars

\* The loop is a sequential program that keeps running until its break: its
\* position keeps moving on.  Fairness is stated on pc, the part of the state
\* a step of the loop is told by.
BatchMoves ==
    /\ pc # "done"
    /\ pc = "advance" => tick < MaxBatchTick
    /\ \E to \in { "attempt", "release", "print", "advance", "final", "done" } \ { pc } : pc' = to

BatchFairSpec == BatchSpec /\ WF_pc(BatchMoves)

\* ============================================================= properties
IsPlacement(call) == call.op \in {"firstFit", "bestFit"}

\* Blocks that hold no job and are large enough for a job of the given size.
FreeFitting(size) == { b \in BlockIds : ~ram[b].busy /\ ram[b].size >= size }

MinOf(S) == CHOOSE x \in S : \A y \in S : x <= y

SmallestFitting(size) ==
    LET cap == MinOf({ ram[b].size : b \in FreeFitting(size) })
    IN  MinOf({ b \in FreeFitting(size) : ram[b].size = cap })

PartitionIntact ==
    /\ SetElems(freeList) \cap SetElems(busyList) = {}
    /\ SetElems(freeList) \cup SetElems(busyList) = BlockIds

\* C1: in every reachable state freeList and busyList are disjoint and their
\* union is the set of all block ids 1..N.
FreeBusyPartition == PartitionIntact

\* C2: no block holds more than one job concurrently: a placement never
\* selects a busy block, and a busy block keeps its occupant (jid, jobStart)
\* in every step except a deallocate call that frees it.
OneJobPerBlock ==
    [][ /\ (IsPlacement(last') /\ last'.res) => ~ram[last'.idx].busy
        /\ \A b \in BlockIds :
              ram[b].busy => \/ ram'[b] = ram[b]
                             \/ last'.op = "deallocate" /\ ~ram'[b].busy ]_vars

\* C3: whenever some free block has capacity >= job.size, bestFit places the
\* job in the free block of minimum capacity among those that fit, and among
\* equal capacities in the one with the lowest block id.  Stated for the calls
\* made while freeList and busyList partition the block ids, so that the
\* failure shown does not rest on ids that bestFit left behind in freeList.
BestFitChoosesSmallest ==
    [][ (last'.op = "bestFit" /\ PartitionIntact /\ FreeFitting(last'.size) # {})
            => (last'.res /\ last'.idx = SmallestFitting(last'.size)) ]_vars

\* C4: whenever some free block has capacity >= job.size, firstFit places the
\* job in the free block with the lowest block id among those that fit, also
\* after blocks have been freed and re-added to the free set.  Stated for the
\* calls made while freeList and busyList partition the block ids.
FirstFitChoosesLowestId ==
    [][ (last'.op = "firstFit" /\ PartitionIntact /\ FreeFitting(last'.size) # {})
            => (last'.res /\ last'.idx = MinOf(FreeFitting(last'.size))) ]_vars

\* C5: for every successful placement by firstFit or bestFit the placed job's
\* size is <= the capacity of the block it was placed in.
PlacedJobFits ==
    [][ (IsPlacement(last') /\ last'.res)
            => /\ last'.idx \in BlockIds
               /\ ram'[last'.idx].busy
               /\ jobMap'[ram'[last'.idx].jid].size = last'.size
               /\ last'.size <= ram'[last'.idx].size ]_vars

\* A bestFit call has just placed a job smaller than the block it chose.
PlacedJobFitsWitness ==
    /\ last.op = "bestFit" /\ last.res
    /\ ram[last.idx].busy
    /\ jobMap[ram[last.idx].jid].size < ram[last.idx].size


\* C6: deallocate(t) frees exactly the busy blocks whose occupant has
\* t - jobStart >= time, clearing jid and jobStart, and leaves every other
\* block as it was; so a block into which a job of duration d was placed at
\* tick s is still busy after a deallocate(t) with t - s < d and free after
\* one with t - s >= d.
DeallocateAtExpiry ==
    [][ last'.op = "deallocate" =>
          LET t == totalTicks'
          IN  \A b \in BlockIds :
                /\ ram[b].busy /\ t - ram[b].jobStart >= jobMap[ram[b].jid].time
                      => ram'[b] = [ram[b] EXCEPT !.busy = FALSE, !.jid = NoJob, !.jobStart = NoJob]
                /\ ~(ram[b].busy /\ t - ram[b].jobStart >= jobMap[ram[b].jid].time)
                      => ram'[b] = ram[b]
                /\ \A p \in held[b] :
                      /\ t - p.start < p.time => ram'[b].busy
                      /\ t - p.start >= p.time => ~ram'[b].busy ]_vars

\* C7: a firstFit or bestFit call for which no free block has capacity >=
\* job.size returns false and leaves the whole engine state unchanged.
FailedPlacementNoEffect ==
    [][ (IsPlacement(last') /\ FreeFitting(last'.size) = {})
            => (~last'.res /\ UNCHANGED engine) ]_vars

AnyBlockFits(size) == \E b \in BlockIds : ram[b].size >= size

\* C8: canAllocate(job) is true iff some block, free or busy, has capacity >=
\* job.size; its answer for a given size never changes, it is false on an
\* engine without blocks, and the call changes no engine state.
\* Block count and capacities are what they were, so AnyBlockFits, and with
\* it the answer of canAllocate for a given size, is the same before and after.
CapacitiesKept ==
    /\ Len(ram') = Len(ram)
    /\ \A b \in BlockIds : ram'[b].size = ram[b].size

CanAllocateIsCapacityCheck ==
    [][ /\ CapacitiesKept
        /\ last'.op = "canAllocate"
              => /\ UNCHANGED engine
                 /\ last'.res <=> AnyBlockFits(last'.size)
                 /\ Len(ram) = 0 => ~last'.res ]_vars

\* canAllocate has just answered true for a size that only a busy block can hold.
CanAllocateWitness ==
    /\ last.op = "canAllocate" /\ last.res
    /\ FreeFitting(last.size) = {}
    /\ \E b \in BlockIds : ram[b].busy /\ b \notin SetElems(freeList) /\ ram[b].size >= last.size

\* C9: totalFragmentation + totalJobMemory equals the sum over all successful
\* placements of the chosen block's capacity; each successful placement adds
\* block.size - job.size (never negative) to totalFragmentation and job.size
\* to totalJobMemory, and no other step changes the two totals.
Conserved == totalFragmentation + totalJobMemory = placedCapacity

FragmentationConservation ==
    [][ /\ Conserved /\ Conserved'
        /\ IF IsPlacement(last') /\ last'.res
           THEN /\ ram[last'.idx].size - last'.size >= 0
                /\ totalFragmentation' = totalFragmentation + (ram[last'.idx].size - last'.size)
                /\ totalJobMemory' = totalJobMemory + last'.size
           ELSE UNCHANGED << totalFragmentation, totalJobMemory >> ]_vars

\* A block has been used twice and capacity has been wasted.
FragmentationWitness ==
    /\ \E b \in BlockIds : UsageOf(blockUsage, b) >= 2
    /\ totalFragmentation > 0
    /\ totalJobMemory > 0

RECURSIVE SumSizes(_)
SumSizes(S) == IF S = {} THEN 0 ELSE LET b == CHOOSE x \in S : TRUE IN ram[b].size + SumSizes(S \ {b})

\* C10: totalMemoryUsed is the sum of the capacities of exactly the blocks
\* whose allocation counter is >= 1, each counted once however often it is
\* reused; so totalMemoryUsed <= totalMemory and the memory utilization is at
\* most 100%.
MemoryUsedCountsOnce ==
    /\ totalMemoryUsed = SumSizes({ b \in BlockIds : UsageOf(blockUsage, b) >= 1 })
    /\ totalMemoryUsed <= totalMemory
    /\ MemoryUtilization.num <= 100 * MemoryUtilization.den

\* A block has been reused while another block has never been used.
MemoryUsedWitness ==
    /\ \E b \in BlockIds : UsageOf(blockUsage, b) >= 2
    /\ \E b \in BlockIds : UsageOf(blockUsage, b) = 0
    /\ totalMemoryUsed > 0

\* ------------------------------------------------------------- statistics claims
Returned(call, op) == call.op = op /\ call.res

\* C11: two calcStats calls in a row, with no placement or deallocation in
\* between, return identical statistics maps (same keys, same values),
\* including when no block has ever been used.
CalcStatsIdempotent ==
    [][ (Returned(last, "calcStats") /\ Returned(last', "calcStats"))
            => usageStats' = usageStats ]_vars

\* C12: on an engine on which no job has ever been placed (deallocate called
\* or not, with or without blocks) calcStats returns without raising and
\* reports throughput, memory utilization, fragmentation and the lightly- and
\* heavily-used percentages as 0.
NoJobStatsAreZero ==
    [][ (last'.op = "calcStats" /\ DOMAIN placed = {})
            => /\ last'.res
               /\ usageStats'["Throughput (jobs/tick)"] = << 0, 1 >>
               /\ usageStats'["Memory Util %"] = << 0 >>
               /\ usageStats'["Internal Fragmentation %"] = << 0 >>
               /\ usageStats'["% Lightly Used"] = << 0 >>
               /\ usageStats'["% Heavily Used"] = << 0 >> ]_vars

\* The placements not yet freed, over all blocks.
AllHeld == UNION { held[b] : b \in BlockIds }

\* Two jobs of the block size and time 1, ids 1 and 2, each placed once at
\* tick 0 and neither freed yet.
BothPlacedAtZero ==
    /\ AllHeld = { [jid |-> id, start |-> 0, time |-> 1] : id \in {1, 2} }
    /\ DOMAIN placed = {1, 2} /\ placed[1] = 1 /\ placed[2] = 1

\* C13: with blocks [30, 30] and two jobs of size 30 and time 1 placed at
\* tick 0, under either policy: both placements succeed and the jobs occupy
\* different blocks; after deallocate(1) both blocks are free; each block's
\* allocation counter is exactly 1 and no block is never-used.
TwoJobsTwoBlocks ==
    [][ /\ (IsPlacement(last') /\ UsageTotal(blockUsage) < 2) => last'.res
        /\ BothPlacedAtZero'
              => /\ ram'[1].busy /\ ram'[2].busy /\ ram'[1].jid # ram'[2].jid
                 /\ UsageOf(blockUsage', 1) = 1 /\ UsageOf(blockUsage', 2) = 1
        /\ (BothPlacedAtZero /\ last'.op = "deallocate" /\ totalTicks' = 1)
              => /\ ~ram'[1].busy /\ ~ram'[2].busy
                 /\ UsageOf(blockUsage', 1) = 1 /\ UsageOf(blockUsage', 2) = 1
                 /\ NeverUsedBlocks' = << >> ]_vars

\* The jobs the driver's run was started with.
RunJobs == { makeJobQueue(jobTimes)[i] : i \in 1..Len(jobTimes) }

Pending == { jobs[i] : i \in 1..Len(jobs) }

\* A frame's placement attempt that failed.
AttemptFailed == pc = "update" /\ IsPlacement(last') /\ ~last'.res

RunDone ==
    /\ \A job \in RunJobs : job.id \in DOMAIN placed \/ job \in rejectedList
    /\ jobs = << >>
    /\ SetElems(busyList) = {}
    /\ \A b \in BlockIds : ~ram[b].busy

\* C14: in the interactive driver a job whose placement attempt fails goes to
\* the rejected set iff no block, free or busy, has capacity >= its size, and
\* is otherwise put back at the front of the queue; a rejected job stays
\* rejected for the rest of the run, is never pending and never placed; and
\* every run comes to a state where each of its jobs is placed or rejected,
\* no job is pending and no block is busy.
RetryOrReject ==
    /\ [][ /\ AttemptFailed =>
                IF AnyBlockFits(Head(jobs).size)
                THEN jobs' = jobs /\ rejectedList' = rejectedList
                ELSE jobs' = Tail(jobs) /\ rejectedList' = rejectedList \cup { Head(jobs) }
           /\ (pc' # "update" \/ pc # "end") => rejectedList \subseteq rejectedList'
         ]_vars
    /\ [](\A job \in rejectedList : job \notin Pending /\ job.id \notin DOMAIN placed)
    /\ []<>RunDone

\* A First Fit run over one block is done with both jobs placed: the second
\* job was put back at least once while the first held the block.
RetryOrRejectWitness ==
    /\ pc = "end" /\ RunDone
    /\ scheme = 0 /\ Len(ram) = 1
    /\ DOMAIN placed = {1, 2}
    /\ jobMap[1].time > 0

Ids(pairs) == { pairs[i][1] : i \in 1..Len(pairs) }

\* max(1, round(mean)) of the counts of the used blocks; round is Python's,
\* halves to the even neighbour.
RoundedMeanThreshold ==
    LET m == RoundHalfEven(SumCounts(UsedWithCounts), Len(UsedWithCounts))
    IN  IF m > 1 THEN m ELSE 1

\* The three categories of calcStorageUtilization cover the block ids and
\* no id is in two of them.
CategoriesPartition ==
    LET never == { NeverUsedBlocks[i] : i \in 1..Len(NeverUsedBlocks) }
    IN  /\ never \cup Ids(LightlyUsedBlocks) \cup Ids(HeavilyUsedBlocks) = BlockIds
        /\ never \cap Ids(LightlyUsedBlocks) = {}
        /\ never \cap Ids(HeavilyUsedBlocks) = {}
        /\ Ids(LightlyUsedBlocks) \cap Ids(HeavilyUsedBlocks) = {}

\* C15: when calcStats returns and some block has been used, the heavy
\* threshold it reports is max(1, round(mean count of the used blocks)); the
\* heavily-used blocks are the used blocks with count >= that value, the
\* lightly-used ones the other used blocks, and the never-used, lightly-used
\* and heavily-used blocks partition the block ids.
HeavyThresholdIsRoundedMean ==
    [][ (Returned(last', "calcStats") /\ UsedWithCounts # << >>) =>
            /\ usageStats'["Heavy Threshold"][1] = RoundedMeanThreshold
            /\ HeavilyUsedBlocks = SelectSeq(UsedWithCounts, LAMBDA p : p[2] >= RoundedMeanThreshold)
            /\ LightlyUsedBlocks = SelectSeq(UsedWithCounts, LAMBDA p : p[2] < RoundedMeanThreshold)
            /\ CategoriesPartition
      ]_vars

UsedIds == { b \in BlockIds : UsageOf(blockUsage, b) # 0 }

\* The lowest id among the used blocks whose count is the largest.
MostUsed == MinOf({ b \in UsedIds : \A o \in UsedIds : UsageOf(blockUsage, o) <= UsageOf(blockUsage, b) })

\* The lowest id among the used blocks whose count is the smallest.
LeastUsed == MinOf({ b \in UsedIds : \A o \in UsedIds : UsageOf(blockUsage, o) >= UsageOf(blockUsage, b) })

\* C16: when calcStats returns on an engine with at least one used block,
\* the "Most Used Block" entry names the block with the largest allocation
\* count and the "Least Used Block" entry the block with the smallest count
\* other than 0, each with its count, and of several blocks with that count
\* the one with the lowest id.
MostAndLeastUsedBlock ==
    [][ (Returned(last', "calcStats") /\ UsedIds # {}) =>
            /\ usageStats'["Most Used Block"] = << MostUsed, UsageOf(blockUsage, MostUsed) >>
            /\ usageStats'["Least Used Block"] = << LeastUsed, UsageOf(blockUsage, LeastUsed) >>
      ]_vars

\* calcStats has returned with both blocks used once, block 2 before block
\* 1, and reports block 1 as most and as least used.
MostAndLeastUsedWitness ==
    /\ Returned(last, "calcStats")
    /\ SelectSeq(blockUsage, LAMBDA p : p[2] # 0) = << << 2, 1 >>, << 1, 1 >> >>
    /\ usageStats["Most Used Block"] = << 1, 1 >>
    /\ usageStats["Least Used Block"] = << 1, 1 >>

IsDerivation(call) ==
    call.op \in { "calcStats", "calcStorageUtilization", "calcInternalFragmentation", "outputState" }

\* C17: calcStats, calcStorageUtilization, calcInternalFragmentation and
\* outputState leave the engine as it was: freeList, busyList, every block
\* record, the job map, the per-block allocation counter mapping, the three
\* accumulated totals and the latest tick are the same after the call as
\* before it.
DerivationLeavesEngine ==
    [][ IsDerivation(last') =>
            UNCHANGED << freeList, busyList, ram, jobMap, blockUsage, totalMemoryUsed,
                         totalFragmentation, totalJobMemory, totalTicks >>
      ]_vars

\* C18: the map calcStats returns is the map an engine with the same block
\* counters, totals, job map and latest tick returns on which calcStats was
\* never called before: no entry is left over from an earlier call.
StatsFromCountersOnly ==
    [][ Returned(last', "calcStats") => usageStats' = StatsMap(AfterLeastUsedById(<< >>)) ]_vars

\* A block record agrees with itself, with busyList and with the job map.
BlockConsistent(b) ==
    /\ ram[b].id = b
    /\ ram[b].busy <=> ram[b].jid # NoJob
    /\ ram[b].busy <=> ram[b].jobStart # NoJob
    /\ ram[b].busy <=> b \in SetElems(busyList)
    /\ ram[b].busy => (ram[b].jid \in DOMAIN jobMap /\ ram[b].jobStart >= 0)

BlocksConsistent ==
    /\ \A b \in BlockIds : BlockConsistent(b)
    /\ totalMemory = SumSizes(BlockIds)
    /\ last.op = "init" => \A b \in BlockIds : ~ram[b].busy

\* C19: in every reachable state each block is busy iff its jid is defined
\* iff its jobStart is defined iff its id is in busyList, and the job id of
\* a busy block is a key of the job map; the blocks carry the ids 1..N, all
\* free after construction; and no step changes the number of blocks, a
\* block's capacity or the total capacity, which is the sum of the capacities.
BlockRecordsConsistent ==
    /\ BlocksConsistent
    /\ [][ /\ BlocksConsistent'
            /\ CapacitiesKept
            /\ totalMemory' = totalMemory
          ]_vars

\* After a deallocate one block still holds its job and another, used
\* before, has been released.
BlockRecordsWitness ==
    /\ last.op = "deallocate"
    /\ \E b \in BlockIds : ram[b].busy
    /\ \E b \in BlockIds : ~ram[b].busy /\ UsageOf(blockUsage, b) > 0

\* The job ids placed so far, each at most once.
PlacedOnce == \A id \in DOMAIN placed : placed[id] = 1

\* C20: a deallocate call records the tick it is given as the latest tick,
\* whether or not it frees a block, and no other call changes the latest
\* tick; a calcStats call that returns after it reports as throughput the
\* number of distinct job ids ever placed divided by that tick, and 0 when
\* the tick is 0; and when no job id was placed twice, the number of job ids
\* ever placed is the sum of the per-block allocation counters.
ThroughputPerLatestTick ==
    [][ /\ IF last'.op = "deallocate" THEN totalTicks' = tick ELSE totalTicks' = totalTicks
        /\ Returned(last', "calcStats") =>
              usageStats'["Throughput (jobs/tick)"] =
                  IF totalTicks = 0 THEN << 0, 1 >>
                  ELSE Ratio(Cardinality(DOMAIN placed), totalTicks)
        /\ PlacedOnce' => Cardinality(DOMAIN placed') = UsageTotal(blockUsage')
      ]_vars

\* calcStats has returned with 1 as the latest tick and a block busy since
\* tick 1, two job ids placed in three placements: the throughput is 2.
ThroughputWitness ==
    /\ Returned(last, "calcStats")
    /\ totalTicks = 1
    /\ \E b \in BlockIds : ram[b].busy /\ ram[b].jobStart = 1
    /\ DOMAIN placed = {1, 2} /\ UsageTotal(blockUsage) = 3
    /\ usageStats["Throughput (jobs/tick)"] = << 2, 1 >>

\* Every job of the run is no larger than some block.
BatchFeasible == \A job \in RunJobs : AnyBlockFits(job.size)

BatchDone ==
    /\ pc = "done"
    /\ jobs = << >>
    /\ SetElems(busyList) = {}
    /\ DOMAIN placed = { job.id : job \in RunJobs }
    /\ PlacedOnce

\* C21: the batch loop, run on a job list each of whose jobs fits some
\* block, comes to its end with the queue empty, busyList empty and every
\* job placed exactly once; and on the way no job is placed twice.
BatchTerminates ==
    /\ [](BatchFeasible => PlacedOnce)
    /\ BatchFeasible ~> BatchDone

\* The loop has ended over one block with both jobs placed: job 2, taken
\* first, held the block while job 1 was put back.
BatchTerminatesWitness ==
    /\ BatchDone
    /\ Len(ram) = 1
    /\ DOMAIN placed = {1, 2}
    /\ jobMap[2].time > 0

\* The job ids whose placement count rises in a step.
PlacedNow(before, after) ==
    { id \in DOMAIN after : IF id \in DOMAIN before THEN after[id] > before[id] ELSE TRUE }

Settled(job) == job.id \in DOMAIN placed \/ job \in rejectedList

\* C22: in the interactive driver the queue is in ascending job id order and
\* every attempt is made on its first job; a job that failed while some
\* block could hold it is the first job of the queue again after the attempt;
\* and when a job is placed, every job of the run with a lower id has been
\* placed or rejected before.
PlacedInQueueOrder ==
    /\ [](\A i \in 1..Len(jobs) : \A j \in 1..Len(jobs) : i < j => jobs[i].id < jobs[j].id)
    /\ [][ /\ (pc = "update" /\ IsPlacement(last')) =>
                 /\ last'.size = Head(jobs).size
                 /\ PlacedNow(placed, placed') \subseteq { Head(jobs).id }
           /\ (AttemptFailed /\ AnyBlockFits(Head(jobs).size)) => Head(jobs') = Head(jobs)
           /\ \A id \in PlacedNow(placed, placed') :
                 \A job \in RunJobs : job.id < id => Settled(job)
         ]_vars

\* Job 2 has just failed and waits at the head of the queue for a block that
\* job 1 holds, while job 3 behind it would fit a free block.
PlacedInQueueOrderWitness ==
    /\ pc = "deallocate" /\ IsPlacement(last) /\ ~last.res
    /\ Len(jobs) = 2 /\ jobs[1].id = 2 /\ jobs[2].id = 3
    /\ DOMAIN placed = {1} /\ rejectedList = {}
    /\ \E b \in BlockIds : ~ram[b].busy /\ b \in SetElems(freeList) /\ ram[b].size >= jobs[2].size

====
